---- MODULE Spec2Model ----
(***************************************************************************)
(* OptiFeat: the budgeted feature selector                                 *)
(* (optifeat/optimization/knapsack_selector.py).                           *)
(*                                                                         *)
(* A KnapsackSelector is constructed with a time budget and a granularity, *)
(* and select(candidates) runs the 0/1 knapsack dynamic program: guards,   *)
(* discretization and table fill in one step, then the reconstruction      *)
(* candidate by candidate, then reversal and return.  The caller,          *)
(* OptimizationPipeline.run, raises RuntimeError on an empty selection.    *)
(*                                                                         *)
(* Numbers.  value is a float in the source; the model keeps it exact, as  *)
(* an integer count of a fixed quantum.  time_budget is a float number of  *)
(* seconds; the model keeps time_budget * 1000 as the exact fraction       *)
(* time_budget / BudgetDen milliseconds, so that int() has something to    *)
(* truncate.                                                               *)
(***************************************************************************)
EXTENDS Integers, Sequences, FiniteSets

\* ------------------------------------------------------------- bounds
\* At most MaxN candidates in one call.
MaxN == 3
\* The values (in quanta) and the costs (in ms) a candidate is given: cost 0
\* takes the one-unit floor, cost 3 is rounded up when the unit is 2.
ValueDomain == {0, 1, 2}
CostDomain == {0, 2, 3}
\* time_budget * 1000 ranges over -MinBudget/BudgetDen .. MaxBudget/BudgetDen.
MaxBudget == 9
MinBudget == 2
BudgetDen == 2
\* The time_unit_ms argument of the constructor ranges over 0..MaxUnit.
MaxUnit == 2

VARIABLES
    time_budget,     \* self.time_budget, as the numerator of time_budget*1000
    time_unit_ms,    \* self.time_unit_ms
    pc,              \* position of the invocation of select
    candidates,      \* the argument of select
    capacity_units,  \* locals of select ...
    weights,
    values,
    dp,
    i,
    w,
    selected,
    total_cost_ms,
    result,          \* the KnapsackResult returned
    \* OptimizationPipeline.run and the dashboard around it
    args,            \* the arguments of run: the dataset and the settings
    steps,           \* the step log of run
    events,          \* ghost: the collaborators run has invoked, in order
    best_evaluation, \* the evaluation of the selected subset
    runs,            \* the rows of the runs table
    history,         \* what the dashboard fetched after the run
    \* concurrent invocations of select on one selector
    cpc,             \* the position of each invocation
    cargs,           \* the candidate list each invocation was given
    frames,          \* the local variables of each invocation
    cres             \* the KnapsackResult each invocation returned

selVars == <<time_budget, time_unit_ms, pc, candidates, capacity_units, weights,
             values, dp, i, w, selected, total_cost_ms, result>>

runVars == <<args, steps, events, best_evaluation, runs, history>>

concVars == <<cpc, cargs, frames, cres>>

vars == <<selVars, runVars, concVars>>

\* ------------------------------------------------------------- arithmetic
Max(a, b) == IF a >= b THEN a ELSE b

\* Python int() of the fraction num/den (den > 0): truncation toward zero.
IntOf(num, den) == IF num >= 0 THEN num \div den ELSE -((-num) \div den)

\* Python a // b for b > 0: floor division.
FloorDiv(a, b) == a \div b

\* math.ceil(a / b) for b > 0.
Ceil(a, b) == -((-a) \div b)

\* ------------------------------------------------------------- data
\* Names are opaque to select; name k stands for the k-th of MaxN distinct
\* strings.  A call lists them in ascending or in descending order.
NameSeqs(n) == { [k \in 1..n |-> k], [k \in 1..n |-> MaxN + 1 - k] }

FeatureCandidate(name, value, cost_ms) ==
    [name |-> name, value |-> value, cost_ms |-> cost_ms]

KnapsackResult(sel, tv, tc) ==
    [selected_features |-> sel, total_value |-> tv, total_cost_ms |-> tc]

\* Candidate sequences of length n with unique names.
CandidateSeqs(n) ==
    { [k \in 1..n |-> FeatureCandidate(nm[k], vs[k], cs[k])] :
        nm \in NameSeqs(n), vs \in [1..n -> ValueDomain], cs \in [1..n -> CostDomain] }

\* ------------------------------------------------------------- select, pure parts
\* CapacityUnits without the clamp to zero.
CapacityUnitsUnclamped(tb, unit) == FloorDiv(IntOf(tb, BudgetDen), unit)

\* capacity_units = max(int(time_budget * 1000) // time_unit_ms, 0)
CapacityUnits(tb, unit) == Max(FloorDiv(IntOf(tb, BudgetDen), unit), 0)

\* Weight rounding down instead of up.
WeightFloor(cost_ms, unit) == Max(1, FloorDiv(cost_ms, unit))

\* Weight without the floor of one unit.
WeightNoFloor(cost_ms, unit) == Ceil(cost_ms, unit)

\* max(1, math.ceil(cost_ms / time_unit_ms))
Weight(cost_ms, unit) == Max(1, Ceil(cost_ms, unit))

\* DpCell with the fit test off by one (weight < w).
DpCellStrictFit(prev, weight, value, ww) ==
    IF weight < ww /\ prev[ww - weight] + value > prev[ww]
    THEN prev[ww - weight] + value
    ELSE prev[ww]

\* One cell of row i of the table, from row i-1 (prev): lines 68-72.
DpCell(prev, weight, value, ww) ==
    IF weight <= ww /\ prev[ww - weight] + value > prev[ww]
    THEN prev[ww - weight] + value
    ELSE prev[ww]

\* FillRow whose loop stops one short, range(capacity_units): the cell at
\* w = capacity_units keeps the 0.0 it was allocated with.
FillRowShort(prev, weight, value, cap) ==
    [ww \in 0..cap |-> IF ww = cap THEN 0 ELSE DpCell(prev, weight, value, ww)]

\* Row r of the table from row r-1: the inner loop of lines 67-72.
FillRow(prev, weight, value, cap) ==
    [ww \in 0..cap |-> DpCell(prev, weight, value, ww)]

\* The table after the loops of lines 62-72, rows 0..n.
RECURSIVE FillRows(_, _, _, _)
FillRows(ws, vs, cap, r) ==
    IF r = 0 THEN <<[ww \in 0..cap |-> 0]>>
    ELSE LET below == FillRows(ws, vs, cap, r - 1)
         IN  Append(below, FillRow(below[r], ws[r], vs[r], cap))

\* dp[0..n][0..cap]; FillRows is 1-based, dp is 0-based.
FillTable(ws, vs, cap, n) ==
    LET rows == FillRows(ws, vs, cap, n)
    IN  [r \in 0..n |-> rows[r + 1]]

\* Included with >= for !=.
IncludedGe(table, ii, ww) == table[ii][ww] >= table[ii - 1][ww]

\* Included whenever taking candidate ii attains the optimum, ties too.
IncludedOnTie(table, ii, ww) ==
    /\ weights[ii] <= ww
    /\ table[ii][ww] = table[ii - 1][ww - weights[ii]] + values[ii]

\* The reconstruction test dp[i][w] != dp[i-1][w].
Included(table, ii, ww) == table[ii][ww] # table[ii - 1][ww]

\* AddCost accumulating the discretized cost.
AddCostDiscretized(total, candidate, weight, unit) == total + weight * unit

\* total_cost_ms += candidate.cost_ms
AddCost(total, candidate, weight, unit) == total + candidate.cost_ms

\* Reverse left out.
ReverseOmitted(s) == s

\* list.reverse()
Reverse(s) == [k \in 1..Len(s) |-> s[Len(s) + 1 - k]]

\* TotalValue read one capacity level too low.
TotalValueOffByOne(table, n, cap) == table[n][cap - 1]

\* total_value = dp[n][capacity_units]
TotalValue(table, n, cap) == table[n][cap]

EmptyResult == KnapsackResult(<<>>, 0, 0)

\* ------------------------------------------------------------- state machine
\* No run of the pipeline is under way: select is called directly.
NoArgs == [exists |-> TRUE, empty |-> FALSE, has_target |-> TRUE, classes |-> 2,
           min_cost_ms |-> 0, scale_factor_ms |-> 1]

NoEvaluation == [features |-> <<>>, accuracy |-> 0]

NotFetched == [fetched |-> FALSE, rows |-> <<>>, flash |-> "none"]

\* The local variables of an invocation of select that has assigned none.
NoFrame ==
    [capacity_units |-> 0, weights |-> <<>>, values |-> <<>>, dp |-> <<>>,
     i |-> 0, w |-> 0, selected |-> <<>>, total_cost_ms |-> 0]

\* No concurrent invocations are under way.
ConcIdle ==
    /\ cpc = <<>>
    /\ cargs = <<>>
    /\ frames = <<>>
    /\ cres = <<>>

RunIdle ==
    /\ args = NoArgs
    /\ steps = <<>>
    /\ events = <<>>
    /\ best_evaluation = NoEvaluation
    /\ runs = <<>>
    /\ history = NotFetched

\* KnapsackSelector.__init__
Init ==
    /\ time_budget \in (-MinBudget)..MaxBudget
    /\ \E u \in 0..MaxUnit : time_unit_ms = Max(1, u)
    /\ pc = "idle"
    /\ candidates = <<>>
    /\ capacity_units = 0
    /\ weights = <<>>
    /\ values = <<>>
    /\ dp = <<>>
    /\ i = 0
    /\ w = 0
    /\ selected = <<>>
    /\ total_cost_ms = 0
    /\ result = EmptyResult
    /\ RunIdle
    /\ ConcIdle

\* select(c) with an empty candidate list c: lines 39-42.
SelectEmptyOn(c) ==
    /\ c = <<>>
    /\ candidates' = c
    /\ result' = EmptyResult
    /\ pc' = "done"
    /\ UNCHANGED <<time_budget, time_unit_ms, capacity_units, weights, values,
                   dp, i, w, selected, total_cost_ms>>

\* select, called with an empty candidate list.
SelectEmpty ==
    /\ pc = "idle"
    /\ SelectEmptyOn(<<>>)
    /\ UNCHANGED runVars
    /\ UNCHANGED concVars

\* select(c), zero capacity: lines 44-53.
SelectNoCapacityOn(c) ==
    /\ c # <<>>
    /\ candidates' = c
    /\ CapacityUnits(time_budget, time_unit_ms) = 0
    /\ capacity_units' = 0
    /\ result' = EmptyResult
    /\ pc' = "done"
    /\ UNCHANGED <<time_budget, time_unit_ms, weights, values, dp, i, w,
                   selected, total_cost_ms>>

\* select, called with some candidates, zero capacity.
SelectNoCapacity ==
    /\ pc = "idle"
    /\ \E n \in 1..MaxN : \E c \in CandidateSeqs(n) : SelectNoCapacityOn(c)
    /\ UNCHANGED runVars
    /\ UNCHANGED concVars

\* select(c) with capacity: lines 44-76, from the guard to the filled table
\* and the start of the reconstruction.
SelectStartOn(c) ==
    /\ c # <<>>
    /\ candidates' = c
    /\ CapacityUnits(time_budget, time_unit_ms) # 0
    /\ capacity_units' = CapacityUnits(time_budget, time_unit_ms)
    /\ weights' = [k \in 1..Len(candidates') |->
                      Weight(candidates'[k].cost_ms, time_unit_ms)]
    /\ values' = [k \in 1..Len(candidates') |-> candidates'[k].value]
    /\ dp' = FillTable(weights', values', capacity_units', Len(candidates'))
    /\ selected' = <<>>
    /\ total_cost_ms' = 0
    /\ w' = capacity_units'
    /\ i' = Len(candidates')
    /\ pc' = "recon"
    /\ UNCHANGED <<time_budget, time_unit_ms, result>>

\* select, called with some candidates, with capacity.
SelectStart ==
    /\ pc = "idle"
    /\ \E n \in 1..MaxN : \E c \in CandidateSeqs(n) : SelectStartOn(c)
    /\ UNCHANGED runVars
    /\ UNCHANGED concVars

\* One iteration of the loop of lines 77-82.
ReconStep ==
    /\ pc = "recon"
    /\ i >= 1
    /\ IF Included(dp, i, w)
       THEN /\ selected' = Append(selected, candidates[i].name)
            /\ total_cost_ms' =
                   AddCost(total_cost_ms, candidates[i], weights[i], time_unit_ms)
            /\ w' = w - weights[i]
       ELSE UNCHANGED <<selected, total_cost_ms, w>>
    /\ i' = i - 1
    /\ UNCHANGED <<time_budget, time_unit_ms, pc, candidates, capacity_units,
                   weights, values, dp, result>>
    /\ UNCHANGED runVars
    /\ UNCHANGED concVars

\* Lines 84-90: reverse, read the objective, return.
SelectReturn ==
    /\ pc = "recon"
    /\ i = 0
    /\ selected' = Reverse(selected)
    /\ result' = KnapsackResult(selected', TotalValue(dp, Len(candidates), capacity_units),
                                total_cost_ms)
    /\ pc' = "done"
    /\ UNCHANGED <<time_budget, time_unit_ms, candidates, capacity_units,
                   weights, values, dp, i, w, total_cost_ms>>
    /\ UNCHANGED runVars
    /\ UNCHANGED concVars

\* OptimizationPipeline.run, lines 155-161: an empty selection raises
\* RuntimeError, any other goes on to the evaluation of the subset.
CheckSelection ==
    /\ pc = "done"
    /\ pc' = IF result.selected_features = <<>> THEN "RuntimeError" ELSE "evaluate"
    /\ UNCHANGED <<time_budget, time_unit_ms, candidates, capacity_units,
                   weights, values, dp, i, w, selected, total_cost_ms, result>>

RunCheckSelection ==
    /\ CheckSelection
    /\ UNCHANGED runVars
    /\ UNCHANGED concVars

Next ==
    \/ SelectEmpty
    \/ SelectNoCapacity
    \/ SelectStart
    \/ ReconStep
    \/ SelectReturn
    \/ RunCheckSelection

Spec == Init /\ [][Next]_vars

\* ------------------------------------------------------------- the pipeline
\* HISTORY_PAGE_SIZE of config.py.
HISTORY_PAGE_SIZE == 10

\* The settings a run is given: time_budget * 1000 as a fraction over
\* BudgetDen (below, at and above what the candidates cost), and the
\* min_cost_ms argument.
RunBudgets == {-1, 0, 5, MaxBudget}
RunMinCosts == {0, 2}

\* The datasets and settings of a run.  exists: the file is there; empty:
\* pandas finds no rows or no columns in it; has_target: target_column is one
\* of its columns; classes: the distinct values of the prepared target column.
RunArgs ==
    [exists : BOOLEAN, empty : BOOLEAN, has_target : BOOLEAN, classes : {1, 2},
     min_cost_ms : RunMinCosts, scale_factor_ms : 0..MaxUnit]

\* The positions at which run has raised.
Raised == {"FileNotFoundError", "ValueError", "RuntimeError", "TypeError"}

\* The keyword arguments run passes to database.record_run, lines 187-197.
RecordRunKeywords ==
    {"dataset_name", "target_column", "time_budget", "accuracy", "elapsed_time",
     "selected_features", "steps", "total_cost_all_features", "selected_cost"}

\* The keyword-only parameters of database.record_run, none with a default.
RecordRunParameters ==
    {"dataset_name", "target_column", "time_budget", "accuracy", "elapsed_time",
     "selected_features", "steps"}

\* Python binds a call of keyword-only parameters without defaults only when
\* the keywords are exactly the parameters; otherwise it raises TypeError
\* before the body runs.
Binds(keywords, parameters) == keywords = parameters

\* json.dumps / json.loads of a list.
JsonDumps(list) == [json |-> list]
JsonLoads(text) == text.json

\* The row the INSERT of record_run stores, lines 56-79.
RunRow(tb, evaluation, sel, log) ==
    [dataset_name |-> "dataset.csv", target_column |-> "target",
     time_budget |-> tb, accuracy |-> evaluation.accuracy,
     selected_features |-> JsonDumps(sel), steps |-> JsonDumps(log)]

\* database.fetch_history: the newest rows first, at most limit of them, the
\* JSON columns decoded.
FetchHistory(rows, limit) ==
    LET newest == Reverse(rows)
        n == IF Len(newest) <= limit THEN Len(newest) ELSE limit
    IN  [k \in 1..n |->
            [newest[k] EXCEPT !.selected_features = JsonLoads(@),
                              !.steps = JsonLoads(@)]]

\* TargetAccepted without the test for two classes.
TargetAcceptedAnyClasses(a) == a.has_target

\* The validation of lines 123-130 passes.
TargetAccepted(a) == a.has_target /\ a.classes >= 2

\* _create_candidates: each cost is the elapsed time, floored at min_cost_ms.
CreateCandidates(evaluations, min_cost_ms) ==
    [k \in DOMAIN evaluations |->
        FeatureCandidate(evaluations[k].name, evaluations[k].value,
                         Max(evaluations[k].cost_ms, min_cost_ms))]

\* run is called: nothing loaded, no selector yet, an empty runs table.
InitRun ==
    /\ time_budget \in RunBudgets
    /\ time_unit_ms = 1
    /\ pc = "run"
    /\ candidates = <<>>
    /\ capacity_units = 0
    /\ weights = <<>>
    /\ values = <<>>
    /\ dp = <<>>
    /\ i = 0
    /\ w = 0
    /\ selected = <<>>
    /\ total_cost_ms = 0
    /\ result = EmptyResult
    /\ args \in RunArgs
    /\ steps = <<>>
    /\ events = <<>>
    /\ best_evaluation = NoEvaluation
    /\ runs = <<>>
    /\ history = NotFetched
    /\ ConcIdle

\* Lines 119-121 and DatasetLoader.load: a missing file and an empty frame
\* raise; the loader's own target column is the last column, which is there.
RunLoad ==
    /\ pc = "run"
    /\ steps' = Append(steps, "Loading dataset ...")
    /\ events' = Append(events, "load")
    /\ pc' = IF ~args.exists THEN "FileNotFoundError"
             ELSE IF args.empty THEN "ValueError"
             ELSE "loaded"
    /\ UNCHANGED <<time_budget, time_unit_ms, candidates, capacity_units,
                   weights, values, dp, i, w, selected, total_cost_ms, result>>
    /\ UNCHANGED <<args, best_evaluation, runs, history>>
    /\ UNCHANGED concVars

\* Lines 123-130: the target column is present and has two classes at least.
RunValidate ==
    /\ pc = "loaded"
    /\ pc' = IF TargetAccepted(args) THEN "validated" ELSE "ValueError"
    /\ UNCHANGED <<time_budget, time_unit_ms, candidates, capacity_units,
                   weights, values, dp, i, w, selected, total_cost_ms, result>>
    /\ UNCHANGED runVars
    /\ UNCHANGED concVars

\* Lines 132-146: one evaluation per feature column (its accuracy and elapsed
\* time are whatever the model gives), the candidates, the selector.
RunPrepare ==
    /\ pc = "validated"
    /\ \E n \in 0..MaxN : \E evaluations \in CandidateSeqs(n) :
           candidates' = CreateCandidates(evaluations, Max(1, args.min_cost_ms))
    /\ time_unit_ms' = Max(1, Max(1, args.scale_factor_ms))
    /\ steps' = steps \o <<"Evaluating individual features ...",
                            "features analysed",
                            "Preparing knapsack candidates ...">>
    /\ events' = Append(events, "evaluate_each")
    /\ pc' = "call"
    /\ UNCHANGED <<time_budget, capacity_units, weights, values, dp, i, w,
                   selected, total_cost_ms, result>>
    /\ UNCHANGED <<args, best_evaluation, runs, history>>
    /\ UNCHANGED concVars

\* Lines 148-149: selector.select(candidates).
RunSelect ==
    /\ pc = "call"
    /\ \/ SelectEmptyOn(candidates)
       \/ SelectNoCapacityOn(candidates)
       \/ SelectStartOn(candidates)
    /\ steps' = Append(steps, "Running knapsack optimization ...")
    /\ events' = Append(events, "select")
    /\ UNCHANGED <<args, best_evaluation, runs, history>>
    /\ UNCHANGED concVars

\* Lines 150-159: the count is logged, an empty selection raises.
RunLogSelection ==
    /\ CheckSelection
    /\ steps' = Append(steps, "features selected")
    /\ UNCHANGED <<args, events, best_evaluation, runs, history>>
    /\ UNCHANGED concVars

\* Lines 161-168: the evaluation of the selected subset.
RunEvaluate ==
    /\ pc = "evaluate"
    /\ \E accuracy \in ValueDomain :
           best_evaluation' = [features |-> result.selected_features,
                               accuracy |-> accuracy]
    /\ steps' = steps \o <<"Evaluating selected feature subset ...",
                            "final accuracy">>
    /\ events' = Append(events, "evaluate_subset")
    /\ pc' = "evaluated"
    /\ UNCHANGED <<time_budget, time_unit_ms, candidates, capacity_units,
                   weights, values, dp, i, w, selected, total_cost_ms, result>>
    /\ UNCHANGED <<args, runs, history>>
    /\ UNCHANGED concVars

\* Lines 170-207 and database.record_run: the call binds its keywords to the
\* parameters, the row is inserted and run returns its PipelineResult; a call
\* that does not bind raises TypeError before anything is inserted.
RunRecord ==
    /\ pc = "evaluated"
    /\ events' = Append(events, "record_run")
    /\ IF Binds(RecordRunKeywords, RecordRunParameters)
       THEN /\ runs' = Append(runs, RunRow(time_budget, best_evaluation,
                                           result.selected_features, steps))
            /\ pc' = "returned"
       ELSE /\ runs' = runs
            /\ pc' = "TypeError"
    /\ UNCHANGED <<time_budget, time_unit_ms, candidates, capacity_units,
                   weights, values, dp, i, w, selected, total_cost_ms, result>>
    /\ UNCHANGED <<args, steps, best_evaluation, history>>
    /\ UNCHANGED concVars

\* dashboard, views.py lines 65-78: run has returned or its exception was
\* caught; the history is fetched again and rendered.
DashboardFetch ==
    /\ pc \in Raised \cup {"returned"}
    /\ ~history.fetched
    /\ history' = [fetched |-> TRUE,
                   rows |-> FetchHistory(runs, HISTORY_PAGE_SIZE),
                   flash |-> IF pc = "returned" THEN "success" ELSE "error"]
    /\ UNCHANGED selVars
    /\ UNCHANGED <<args, steps, events, best_evaluation, runs>>
    /\ UNCHANGED concVars

NextRun ==
    \/ RunLoad
    \/ RunValidate
    \/ RunPrepare
    \/ RunSelect
    \/ ReconStep
    \/ SelectReturn
    \/ RunLogSelection
    \/ RunEvaluate
    \/ RunRecord
    \/ DashboardFetch

SpecRun == InitRun /\ [][NextRun]_vars

\* ------------------------------------------------------------- concurrent calls
\* Two callers invoke select on one selector, each with its own candidate
\* list.  The selector's fields are the shared variables time_budget and
\* time_unit_ms; what select assigns (lines 44-84) are local variables of the
\* invocation, kept here in the frame of the invocation.  The steps of the
\* two invocations interleave freely.

\* At most ConcN candidates in the list of a concurrent invocation.
ConcN == 2
Threads == {1, 2}
\* A budget of no capacity and one with room for some of the candidates.
ConcBudgets == {0, MaxBudget}
\* The lists the callers pass: positive values, a cost that takes the
\* one-unit floor and a cost that is rounded up.
ConcLists ==
    UNION { { [k \in 1..n |-> FeatureCandidate(k, vs[k], cs[k])] :
                vs \in [1..n -> {1, 2}], cs \in [1..n -> {0, 3}] } : n \in 0..ConcN }

\* Where the local variables of invocation t live.  The mutant keeps them in
\* one place for all invocations, as attributes of the selector would be.
FrameOnSelf(t) == 1
\* Lines 44-66 assign plain local names, so each invocation has its own.
Frame(t) == t

\* Lines 44-66: capacity, discretization, the filled table and the cursor at
\* the last candidate and the full capacity.
StartFrame(tb, unit, c) ==
    LET cap == CapacityUnits(tb, unit)
        ws  == [k \in 1..Len(c) |-> Weight(c[k].cost_ms, unit)]
        vs  == [k \in 1..Len(c) |-> c[k].value]
    IN  [capacity_units |-> cap, weights |-> ws, values |-> vs,
         dp |-> FillTable(ws, vs, cap, Len(c)),
         i |-> Len(c), w |-> cap, selected |-> <<>>, total_cost_ms |-> 0]

\* Lines 71-76: one iteration of the reconstruction loop on the frame f.
StepFrame(f, c, unit) ==
    IF Included(f.dp, f.i, f.w)
    THEN [f EXCEPT !.selected = Append(@, c[f.i].name),
                   !.total_cost_ms = AddCost(@, c[f.i], f.weights[f.i], unit),
                   !.w = @ - f.weights[f.i],
                   !.i = @ - 1]
    ELSE [f EXCEPT !.i = @ - 1]

\* Lines 78-84: the reversal and the result built from the frame f.
ReturnFrame(f) == [f EXCEPT !.selected = Reverse(@)]

ResultOfFrame(f, c) ==
    KnapsackResult(f.selected, TotalValue(f.dp, Len(c), f.capacity_units),
                   f.total_cost_ms)

ConcInit ==
    /\ time_budget \in ConcBudgets
    /\ \E u \in 0..MaxUnit : time_unit_ms = Max(1, IntOf(u, 1))
    /\ pc = "conc"
    /\ candidates = <<>>
    /\ capacity_units = 0
    /\ weights = <<>>
    /\ values = <<>>
    /\ dp = <<>>
    /\ i = 0
    /\ w = 0
    /\ selected = <<>>
    /\ total_cost_ms = 0
    /\ result = EmptyResult
    /\ RunIdle
    /\ cargs \in [Threads -> ConcLists]
    /\ cpc = [t \in Threads |-> "call"]
    /\ frames = [t \in Threads |-> NoFrame]
    /\ cres = [t \in Threads |-> EmptyResult]

ConcUnchanged ==
    UNCHANGED <<selVars, runVars, cargs>>

\* Lines 41-42 in invocation t.
ConcSelectEmpty(t) ==
    /\ cpc[t] = "call"
    /\ cargs[t] = <<>>
    /\ cres' = [cres EXCEPT ![t] = EmptyResult]
    /\ cpc' = [cpc EXCEPT ![t] = "done"]
    /\ UNCHANGED frames
    /\ ConcUnchanged

\* Lines 44-50 in invocation t.
ConcSelectNoCapacity(t) ==
    /\ cpc[t] = "call"
    /\ cargs[t] # <<>>
    /\ CapacityUnits(time_budget, time_unit_ms) = 0
    /\ frames' = [frames EXCEPT ![Frame(t)].capacity_units = 0]
    /\ cres' = [cres EXCEPT ![t] = EmptyResult]
    /\ cpc' = [cpc EXCEPT ![t] = "done"]
    /\ ConcUnchanged

\* Lines 44-69 in invocation t.
ConcSelectStart(t) ==
    /\ cpc[t] = "call"
    /\ cargs[t] # <<>>
    /\ CapacityUnits(time_budget, time_unit_ms) # 0
    /\ frames' = [frames EXCEPT
                    ![Frame(t)] = StartFrame(time_budget, time_unit_ms, cargs[t])]
    /\ cpc' = [cpc EXCEPT ![t] = "recon"]
    /\ UNCHANGED cres
    /\ ConcUnchanged

\* Lines 71-76 in invocation t.
ConcReconStep(t) ==
    /\ cpc[t] = "recon"
    /\ frames[Frame(t)].i >= 1
    /\ frames' = [frames EXCEPT
                    ![Frame(t)] = StepFrame(frames[Frame(t)], cargs[t], time_unit_ms)]
    /\ UNCHANGED <<cpc, cres>>
    /\ ConcUnchanged

\* Lines 78-90 in invocation t.
ConcSelectReturn(t) ==
    /\ cpc[t] = "recon"
    /\ frames[Frame(t)].i < 1
    /\ frames' = [frames EXCEPT ![Frame(t)] = ReturnFrame(frames[Frame(t)])]
    /\ cres' = [cres EXCEPT ![t] = ResultOfFrame(frames'[Frame(t)], cargs[t])]
    /\ cpc' = [cpc EXCEPT ![t] = "done"]
    /\ ConcUnchanged

NextConc ==
    \E t \in Threads :
        \/ ConcSelectEmpty(t)
        \/ ConcSelectNoCapacity(t)
        \/ ConcSelectStart(t)
        \/ ConcReconStep(t)
        \/ ConcSelectReturn(t)

SpecConc == ConcInit /\ [][NextConc]_vars

\* ------------------------------------------------------------- claims
\* The notions the claims are stated in, written from their wording and not
\* from the operators select computes with.

\* select has returned (and the caller may have moved on).
Returned == pc \in {"done", "RuntimeError", "evaluate"}

\* floor(time_budget * 1000 / time_unit_ms), clamped to >= 0.
ClaimCapacity == Max(time_budget \div (BudgetDen * time_unit_ms), 0)

\* The discretized weight max(1, ceil(cost_ms / time_unit_ms)) of candidate k.
ClaimWeight(k) ==
    LET c == candidates[k].cost_ms
        q == c \div time_unit_ms
        up == IF q * time_unit_ms = c THEN q ELSE q + 1
    IN  IF up < 1 THEN 1 ELSE up

ClaimValue(k) == candidates[k].value

ClaimCost(k) == candidates[k].cost_ms

RECURSIVE SumOver(_, _)
SumOver(S, f) ==
    IF S = {} THEN 0
    ELSE LET x == CHOOSE y \in S : TRUE
         IN  f[x] + SumOver(S \ {x}, f)

ClaimWeights == [k \in DOMAIN candidates |-> ClaimWeight(k)]
ClaimValues == [k \in DOMAIN candidates |-> ClaimValue(k)]
ClaimCosts == [k \in DOMAIN candidates |-> ClaimCost(k)]

\* The brute-force 0/1 knapsack optimum over the first n candidates, capacity cap.
BruteForce(n, cap) ==
    LET feasible == { S \in SUBSET (1..n) : SumOver(S, ClaimWeights) <= cap }
        totals == { SumOver(S, ClaimValues) : S \in feasible }
    IN  CHOOSE best \in totals : \A t \in totals : t <= best

\* The candidates named in selected_features.
SelectedSet ==
    { k \in DOMAIN candidates :
        \E j \in DOMAIN result.selected_features :
            result.selected_features[j] = candidates[k].name }

\* C1 - Optimality: with non-negative values and capacity_units >= 1,
\* total_value is the maximum, over the subsets of candidates whose
\* discretized weights sum to at most capacity_units, of the subset's value.
C1_Optimality ==
    (Returned /\ candidates # <<>> /\ ClaimCapacity >= 1)
        => result.total_value = BruteForce(Len(candidates), ClaimCapacity)

\* A call where the optimum takes two candidates of three and leaves out the
\* one of greatest value.
C1_Witness ==
    /\ pc = "done"
    /\ Len(candidates) = 3
    /\ Cardinality(SelectedSet) = 2
    /\ \E k \in DOMAIN candidates :
          /\ k \notin SelectedSet
          /\ ClaimWeight(k) <= ClaimCapacity
          /\ \A j \in SelectedSet : ClaimValue(k) > ClaimValue(j)

\* C2 - Capacity respected: the discretized weights of the candidates named
\* in selected_features sum to at most capacity_units, and the remaining
\* capacity w of the reconstruction is never negative.
C2_CapacityRespected ==
    /\ pc = "recon" => w >= 0
    /\ Returned => SumOver(SelectedSet, ClaimWeights) <= ClaimCapacity

\* A selection of two candidates that uses the capacity up, while a third
\* candidate of positive value is left out.
C2_Witness ==
    /\ pc = "done"
    /\ Cardinality(SelectedSet) = 2
    /\ SumOver(SelectedSet, ClaimWeights) = ClaimCapacity
    /\ \E k \in DOMAIN candidates : k \notin SelectedSet /\ ClaimValue(k) > 0

\* C3 - The true cost stays within the budget: with time_budget >= 0,
\* total_cost_ms <= time_budget * 1000.
C3_BudgetRespected ==
    (Returned /\ time_budget >= 0)
        => result.total_cost_ms * BudgetDen <= time_budget

\* A selection that fills the capacity, one of its costs rounded up by the
\* discretization, under a budget that is no whole number of milliseconds.
C3_Witness ==
    /\ pc = "done"
    /\ time_budget % BudgetDen # 0
    /\ SelectedSet # {}
    /\ SumOver(SelectedSet, ClaimWeights) = ClaimCapacity
    /\ \E k \in SelectedSet : ClaimCost(k) % time_unit_ms # 0

\* C4 - Selection/objective consistency: total_value is the sum of the values
\* of the candidates named in selected_features.
C4_Consistency ==
    Returned => result.total_value = SumOver(SelectedSet, ClaimValues)

\* Two candidates selected, one of positive value left out.
C4_Witness ==
    /\ pc = "done"
    /\ Cardinality(SelectedSet) >= 2
    /\ result.total_value >= 3
    /\ \E k \in DOMAIN candidates : k \notin SelectedSet /\ ClaimValue(k) > 0

\* The position in the input of the candidate called name.
IndexOf(name) == CHOOSE k \in DOMAIN candidates : candidates[k].name = name

\* C5 - Order preservation: selected_features is a subsequence of the input
\* name sequence: every name is a candidate's, and names come in input order
\* (so none comes twice).
C5_OrderPreserved ==
    Returned =>
        LET sel == result.selected_features
        IN  /\ \A a \in DOMAIN sel : \E k \in DOMAIN candidates : candidates[k].name = sel[a]
            /\ \A a, b \in DOMAIN sel : a < b => IndexOf(sel[a]) < IndexOf(sel[b])

\* Two or more names selected from an input whose names are in descending order.
C5_Witness ==
    /\ pc = "done"
    /\ Len(result.selected_features) >= 2
    /\ Len(candidates) = 3
    /\ candidates[1].name > candidates[2].name

\* C6 - Degenerate inputs: an empty candidate list, or a capacity of 0 (a
\* zero or negative time_budget included), returns the empty result straight
\* away: no table, no reconstruction, selected_features = [], total_value = 0,
\* total_cost_ms = 0.
C6_Degenerate ==
    (pc # "idle" /\ (candidates = <<>> \/ ClaimCapacity = 0 \/ time_budget <= 0))
        => /\ Returned
           /\ result = EmptyResult
           /\ dp = <<>>

\* Three candidates of positive value under a negative budget.
C6_Witness ==
    /\ pc = "done"
    /\ time_budget < 0
    /\ Len(candidates) = 3
    /\ \A k \in DOMAIN candidates : ClaimValue(k) > 0
    /\ result = EmptyResult

\* The costs of the selection as its discretized weights would have it.
ClaimUnitCosts == [k \in DOMAIN candidates |-> ClaimWeight(k) * time_unit_ms]

\* C7 - Cost accounting: total_cost_ms is the sum of the original cost_ms of
\* the candidates named in selected_features; it is not the sum of their
\* weights times time_unit_ms whenever a selected cost is 0 or no multiple of
\* time_unit_ms.
C7_CostAccounting ==
    Returned =>
        /\ result.total_cost_ms = SumOver(SelectedSet, ClaimCosts)
        /\ (\E k \in SelectedSet :
                ClaimCost(k) = 0 \/ ClaimCost(k) % time_unit_ms # 0)
             => result.total_cost_ms # SumOver(SelectedSet, ClaimUnitCosts)

\* A selection of positive cost that holds a zero cost or a cost that is no
\* multiple of the unit: it costs less than its weights say.
C7_Witness ==
    /\ pc = "done"
    /\ result.total_cost_ms > 0
    /\ \E k \in SelectedSet : ClaimCost(k) = 0 \/ ClaimCost(k) % time_unit_ms # 0
    /\ result.total_cost_ms < SumOver(SelectedSet, ClaimUnitCosts)

\* C8 - Minimum-weight floor: every weight select computes is at least 1, so
\* it never selects more candidates than capacity_units.
C8_MinWeightFloor ==
    /\ \A k \in DOMAIN weights : weights[k] >= 1
    /\ Returned => Len(result.selected_features) <= ClaimCapacity

\* Capacity 1 and several zero-cost candidates of positive value: one selected.
C8_Witness ==
    /\ pc = "done"
    /\ ClaimCapacity = 1
    /\ Cardinality({k \in DOMAIN candidates :
                       ClaimCost(k) = 0 /\ ClaimValue(k) > 0}) >= 2
    /\ Len(result.selected_features) = 1

\* C9 - Tie-break: the reconstruction includes candidate j at remaining
\* capacity wb exactly when taking it strictly beats the best value of the
\* first j-1 candidates at wb, and excludes it on a tie; and of two candidates
\* of equal value and equal weight the later one is never selected without the
\* earlier one.  (In a reconstruction state, j = i + 1 is the candidate just
\* decided: it was included iff its name is the last one appended.)
C9_TieBreak ==
    /\ (pc = "recon" /\ i < Len(candidates)) =>
          LET j == i + 1
              inc == selected # <<>> /\ selected[Len(selected)] = candidates[j].name
              wb == IF inc THEN w + ClaimWeight(j) ELSE w
              strict == /\ ClaimWeight(j) <= wb
                        /\ BruteForce(j - 1, wb - ClaimWeight(j)) + ClaimValue(j)
                              > BruteForce(j - 1, wb)
          IN  inc <=> strict
    /\ Returned =>
          \A a, b \in DOMAIN candidates :
              (a < b /\ ClaimValue(a) = ClaimValue(b) /\ ClaimWeight(a) = ClaimWeight(b)
                     /\ b \in SelectedSet) => a \in SelectedSet

\* Two candidates of equal positive value and equal weight, room for one of
\* them only: the earlier one is selected and the later one is not.
C9_Witness ==
    /\ pc = "done"
    /\ \E a, b \in DOMAIN candidates :
          /\ a < b
          /\ ClaimValue(a) = ClaimValue(b) /\ ClaimValue(a) > 0
          /\ ClaimWeight(a) = ClaimWeight(b)
          /\ ClaimWeight(a) <= ClaimCapacity /\ 2 * ClaimWeight(a) > ClaimCapacity
          /\ a \in SelectedSet /\ b \notin SelectedSet

\* C10 as claimed: a non-empty candidate list gets an empty selection (and the
\* run its RuntimeError) only when capacity_units is 0 or every candidate's
\* weight exceeds capacity_units.
C10_Original ==
    (Returned /\ candidates # <<>> /\ result.selected_features = <<>>)
        => \/ ClaimCapacity = 0
           \/ \A k \in DOMAIN candidates : ClaimWeight(k) > ClaimCapacity

\* C10 - amended: a non-empty candidate list gets an empty selection (and the
\* run its RuntimeError) only when capacity_units is 0 or every candidate of
\* value greater than 0 has a weight that exceeds capacity_units.
C10_EmptySelection ==
    /\ (Returned /\ candidates # <<>> /\ result.selected_features = <<>>)
          => \/ ClaimCapacity = 0
             \/ \A k \in DOMAIN candidates :
                    ClaimValue(k) > 0 => ClaimWeight(k) > ClaimCapacity
    /\ pc = "RuntimeError" => result.selected_features = <<>>

\* The run raises RuntimeError although a candidate fits: the one that fits has
\* value 0 and the one of positive value is too heavy.
C10_Witness ==
    /\ pc = "RuntimeError"
    /\ ClaimCapacity >= 1
    /\ \E k \in DOMAIN candidates : ClaimValue(k) = 0 /\ ClaimWeight(k) <= ClaimCapacity
    /\ \E k \in DOMAIN candidates : ClaimValue(k) > 0 /\ ClaimWeight(k) > ClaimCapacity

\* ------------------------------------------------------------- claims on run
\* The dataset passes every validation of load and run.
ClaimValidDataset ==
    args.exists /\ ~args.empty /\ args.has_target /\ args.classes >= 2

\* run is over: it has returned or raised.
RunOver == pc \in Raised \cup {"returned"}

\* How often run has invoked the collaborator called e.
Invocations(e) == Cardinality({k \in DOMAIN events : events[k] = e})

\* Collaborator a was invoked, and before every invocation of b.
Precedes(a, b) ==
    \A k \in DOMAIN events :
        events[k] = b => \E j \in 1..(k - 1) : events[j] = a

\* The run record the claim expects: the run's dataset, target, budget,
\* accuracy, selected features and step log.
ClaimStored(row) ==
    /\ row.dataset_name = "dataset.csv"
    /\ row.target_column = "target"
    /\ row.time_budget = time_budget
    /\ row.accuracy = best_evaluation.accuracy
    /\ row.selected_features = result.selected_features
    /\ row.steps = steps

\* C11 - Successful runs are persisted: a run whose validation passed, whose
\* selection was not empty and whose final evaluation completed ends by
\* returning, with exactly one run record stored, and the dashboard's
\* fetch_history after it returns that record.
C11_Persisted ==
    (RunOver /\ Invocations("evaluate_subset") = 1) =>
        /\ pc = "returned"
        /\ Len(runs) = 1
        /\ ClaimStored(FetchHistory(runs, 1)[1])
        /\ history.fetched =>
              \E k \in DOMAIN history.rows : ClaimStored(history.rows[k])

\* C13 - Step ordering on failure: the solver is invoked only on a dataset
\* that passed validation, so a validation error comes before it; the final
\* evaluation only on a non-empty selection, so the RuntimeError comes before
\* it; record_run at most once, after validation, a non-empty selection and
\* the final evaluation; and a run that failed at one of these steps has
\* written no run record.
C13_StepOrdering ==
    /\ Invocations("select") >= 1 => ClaimValidDataset
    /\ ~ClaimValidDataset =>
          (pc \in {"run", "loaded", "FileNotFoundError", "ValueError"}
              /\ (RunOver => Invocations("select") = 0))
    /\ Invocations("evaluate_subset") >= 1 =>
          (result.selected_features # <<>> /\ Precedes("select", "evaluate_subset"))
    /\ pc = "RuntimeError" =>
          (result.selected_features = <<>> /\ Invocations("evaluate_subset") = 0)
    /\ Invocations("record_run") <= 1
    /\ Invocations("record_run") = 1 =>
          /\ ClaimValidDataset
          /\ result.selected_features # <<>>
          /\ Precedes("evaluate_subset", "record_run")
          /\ Precedes("select", "record_run")
    /\ pc \in {"FileNotFoundError", "ValueError", "RuntimeError"} =>
          (runs = <<>> /\ Invocations("record_run") = 0)
    /\ Len(runs) <= Invocations("record_run")

\* A run on a valid dataset that selected two features, evaluated them and
\* invoked record_run, once.
C13_Witness ==
    /\ ClaimValidDataset
    /\ Len(result.selected_features) = 2
    /\ Invocations("record_run") = 1
    /\ RunOver

\* ------------------------------------------------------------- claims on concurrent calls
\* The locals of select, run alone on the list c, when its cursor is at k.
RECURSIVE AloneAt(_, _)
AloneAt(c, k) ==
    IF k >= Len(c)
    THEN StartFrame(time_budget, time_unit_ms, c)
    ELSE StepFrame(AloneAt(c, k + 1), c, time_unit_ms)

\* What select returns for the list c when no other invocation runs.
SelectAlone(c) ==
    IF c = <<>> \/ CapacityUnits(time_budget, time_unit_ms) = 0
    THEN EmptyResult
    ELSE ResultOfFrame(ReturnFrame(AloneAt(c, 0)), c)

\* In every interleaving, the table, the cursor and the other locals of an
\* invocation under way are those of the same invocation run alone.
ClaimLocalsOwn ==
    \A t \in Threads :
        cpc[t] = "recon" => frames[t] = AloneAt(cargs[t], frames[t].i)

\* Each invocation that has returned, returned what it returns alone, and
\* two invocations with the same input returned the same result.
ClaimSameResult ==
    /\ \A t \in Threads : cpc[t] = "done" => cres[t] = SelectAlone(cargs[t])
    /\ \A t, u \in Threads :
          (cpc[t] = "done" /\ cpc[u] = "done" /\ cargs[t] = cargs[u])
              => cres[t] = cres[u]

\* No step of select writes the selector's fields or a candidate list.
ClaimNoWrites ==
    /\ time_budget' = time_budget
    /\ time_unit_ms' = time_unit_ms
    /\ cargs' = cargs

\* C12: select never writes the selector's fields nor the candidate records
\* it is given, and its table and cursor are local to the invocation; so in
\* any interleaving of two invocations on one selector, each with its own
\* list, each returns the KnapsackResult it returns when run alone, and a
\* repeated call with the same input returns the same result.
C12_NoSharedState ==
    /\ [](ClaimLocalsOwn /\ ClaimSameResult)
    /\ [][ClaimNoWrites]_vars

\* Both invocations are in the middle of their reconstruction, on different
\* lists, and each has already included a candidate.
C12_Witness ==
    /\ cargs[1] # cargs[2]
    /\ \A t \in Threads :
          /\ cpc[t] = "recon"
          /\ frames[t].i >= 1
          /\ frames[t].selected # <<>>

====
